---------------------------- MODULE Spec2Model ----------------------------
(***************************************************************************)
(* A model of the grpc-web layer of Millione/grpc-web:                     *)
(*   - the frame codec WebCall (src/src/codec.rs): request-direction       *)
(*     base64 re-blocking decode, response-direction encode and the        *)
(*     synthesized trailers frame;                                         *)
(*   - the CORS policy Config / Cors (src/src/config.rs);                  *)
(*   - the classifier RequestKind::new and the dispatcher WebService::call *)
(*     (src/src/lib.rs).                                                   *)
(* Bytes are naturals 0..255; byte strings are sequences of bytes.  Header *)
(* values that the code only compares are TLA+ strings; header values the  *)
(* code looks into (contains, from_bytes) are sequences of one-character   *)
(* strings.                                                                *)
(***************************************************************************)
EXTENDS Integers, Sequences, FiniteSets, TLC

VARIABLES
    \* ---- WebCall (codec.rs:35-42) ----
    direction,      \* "Request" | "Response"
    encoding,       \* "Base64" | "None"
    buf,            \* the accumulation buffer
    poll_trailers,  \* the one-shot trailers flag
    \* ---- the inner body B wrapped by WebCall ----
    innerData,      \* items the inner body has still to deliver
    innerTrailers,  \* what the inner body's poll_trailers resolves to
    \* ---- the observer of the codec ----
    emitted,        \* every item poll_data has returned Ready(Some(_)), in order
    lastPoll,       \* the result of the last poll_data
    trailerPolls,   \* completed polls of the inner body's trailing metadata
    \* ---- Config / Cors (config.rs:49-54, 128-130) ----
    allowed_origins,
    exposed_headers,
    exposedIter,    \* the iteration order of the exposed_headers HashSet
    max_age,
    allow_credentials,
    phase,          \* "build" (Config builder) | "serve" (wrapped in Cors)
    \* ---- one call of WebService::call ----
    req,            \* the request handed to call
    result,         \* what call returned
    engineCalls,    \* how often call invoked the inner service for req
    engineReq,      \* the request the inner service received
    engineRes       \* what the inner service returned

codecVars == <<direction, encoding, buf, poll_trailers, innerData, innerTrailers,
               emitted, lastPoll, trailerPolls>>
configVars == <<allowed_origins, exposed_headers, exposedIter, max_age,
                allow_credentials, phase>>
callVars == <<req, result, engineCalls, engineReq, engineRes>>
vars == <<codecVars, configVars, callVars>>

-----------------------------------------------------------------------------
(* Bounds of the model.                                                     *)

\* Longest raw payload (bytes) a body carries.
MaxBytes == 4
\* Most chunks a body's payload is split into.
MaxChunks == 3
\* Pulls that yield an item after the inner body's items are used up.
MaxExtraPulls == 2

\* Raw payloads are the prefixes of these byte strings.
PayloadPatterns == {<<77, 255, 0, 130, 7, 200, 97, 16>>, <<251, 1, 110, 63, 128, 34, 255, 9>>}

-----------------------------------------------------------------------------
(* Sequence helpers.                                                        *)

RECURSIVE Concat(_)
Concat(ss) == IF ss = <<>> THEN <<>> ELSE Head(ss) \o Concat(Tail(ss))

\* Every way to cut s into at most n non-empty consecutive chunks.
RECURSIVE Chunkings(_, _)
Chunkings(s, n) ==
    IF s = <<>> THEN {<<>>}
    ELSE IF n = 0 THEN {}
    ELSE UNION {{<<SubSeq(s, 1, k)>> \o rest : rest \in Chunkings(SubSeq(s, k + 1, Len(s)), n - 1)}
                : k \in 1..Len(s)}

Min(a, b) == IF a < b THEN a ELSE b

-----------------------------------------------------------------------------
(* base64 (the standard alphabet with canonical padding), as the codec      *)
(* calls it: base64::decode at codec.rs:78, base64::encode at codec.rs:129  *)
(* and codec.rs:141.                                                        *)

PadChar == 61

\* The ASCII character of a 6-bit value.
EncChar(s) ==
    IF s < 26 THEN 65 + s
    ELSE IF s < 52 THEN 97 + (s - 26)
    ELSE IF s < 62 THEN 48 + (s - 52)
    ELSE IF s = 62 THEN 43 ELSE 47

\* The 6-bit value of an ASCII character, -1 when it is not in the alphabet.
Sextet(c) ==
    IF c >= 65 /\ c <= 90 THEN c - 65
    ELSE IF c >= 97 /\ c <= 122 THEN c - 97 + 26
    ELSE IF c >= 48 /\ c <= 57 THEN c - 48 + 52
    ELSE IF c = 43 THEN 62
    ELSE IF c = 47 THEN 63 ELSE -1

RECURSIVE Base64Encode(_)
Base64Encode(s) ==
    IF Len(s) = 0 THEN <<>>
    ELSE IF Len(s) = 1 THEN
        <<EncChar(s[1] \div 4), EncChar((s[1] % 4) * 16), PadChar, PadChar>>
    ELSE IF Len(s) = 2 THEN
        <<EncChar(s[1] \div 4), EncChar((s[1] % 4) * 16 + s[2] \div 16),
          EncChar((s[2] % 16) * 4), PadChar>>
    ELSE
        <<EncChar(s[1] \div 4), EncChar((s[1] % 4) * 16 + s[2] \div 16),
          EncChar((s[2] % 16) * 4 + s[3] \div 64), EncChar(s[3] % 64)>>
        \o Base64Encode(SubSeq(s, 4, Len(s)))

DecOk(bytes) == [ok |-> TRUE, val |-> bytes]
DecErr == [ok |-> FALSE, val |-> <<>>]

\* One 4-character block; padding is accepted in the last block only, and the
\* bits of the last symbol that encode nothing must be zero.
DecodeQuad(q, isLast) ==
    LET s1 == Sextet(q[1])
        s2 == Sextet(q[2])
        s3 == Sextet(q[3])
        s4 == Sextet(q[4])
    IN  IF s1 >= 0 /\ s2 >= 0 /\ s3 >= 0 /\ s4 >= 0 THEN
            DecOk(<<s1 * 4 + s2 \div 16, (s2 % 16) * 16 + s3 \div 4, (s3 % 4) * 64 + s4>>)
        ELSE IF isLast /\ s1 >= 0 /\ s2 >= 0 /\ s3 >= 0 /\ q[4] = PadChar /\ s3 % 4 = 0 THEN
            DecOk(<<s1 * 4 + s2 \div 16, (s2 % 16) * 16 + s3 \div 4>>)
        ELSE IF isLast /\ s1 >= 0 /\ s2 >= 0 /\ q[3] = PadChar /\ q[4] = PadChar
                /\ s2 % 16 = 0 THEN
            DecOk(<<s1 * 4 + s2 \div 16>>)
        ELSE DecErr

RECURSIVE Base64Decode(_)
Base64Decode(t) ==
    IF Len(t) = 0 THEN DecOk(<<>>)
    ELSE IF Len(t) < 4 THEN DecErr
    ELSE LET q == DecodeQuad(SubSeq(t, 1, 4), Len(t) = 4)
         IN  IF ~q.ok THEN DecErr
             ELSE LET r == Base64Decode(SubSeq(t, 5, Len(t)))
                  IN  IF r.ok THEN DecOk(q.val \o r.val) ELSE DecErr


-----------------------------------------------------------------------------
(* Items of a body and results of a poll.                                   *)

\* What a raw (inner) body delivers: a chunk of bytes or a read error.
Chunk(d) == [ok |-> TRUE, data |-> d]
ErrItem == [ok |-> FALSE, data |-> <<>>]

\* What the inner body's trailing metadata resolves to: absent, an error, or a
\* header map, given as the sequence of (key, value) pairs in the order the
\* map's iterator yields them.
NoTrailers == [tag |-> "None", map |-> <<>>]
TrailersErr == [tag |-> "Err", map |-> <<>>]
SomeTrailers(m) == [tag |-> "Some", map |-> m]

\* What WebCall yields: Ok(bytes) (a data chunk or the trailers frame) or
\* Err(Status).
DataItem(d) == [kind |-> "data", data |-> d, status |-> "Ok", msg |-> ""]
TrailersItem(d) == [kind |-> "trailers", data |-> d, status |-> "Ok", msg |-> ""]

\* internal_error (codec.rs:226-229): Status::internal with the cause in its
\* message.  The causes: "malformed base64 request" (codec.rs:106), and the
\* errors of base64::decode ("decode"), of the inner body's poll_data ("read")
\* and of its poll_trailers ("trailers").
internal_error_unknown(cause) ==
    [kind |-> "error", data |-> <<>>, status |-> "Unknown", msg |-> cause]
internal_error(cause) == [kind |-> "error", data |-> <<>>, status |-> "Internal", msg |-> cause]

Pending == [tag |-> "Pending", item |-> DataItem(<<>>)]
ReadyNone == [tag |-> "None", item |-> DataItem(<<>>)]
ReadySome(it) == [tag |-> "Some", item |-> it]

-----------------------------------------------------------------------------
(* The trailers frame (codec.rs:231-248).                                   *)

FRAME_HEADER_SIZE == 5
GRPC_WEB_TRAILERS_BIT == 128

PutU32LE(n) ==
    <<n % 256, (n \div 256) % 256, (n \div 65536) % 256, (n \div 16777216) % 256>>

\* put_u32(len as u32): the big-endian bytes of n.  The assert of codec.rs:240
\* keeps n within u32, so the cast never truncates.
PutU32(n) ==
    <<(n \div 16777216) % 256, (n \div 65536) % 256, (n \div 256) % 256, n % 256>>

\* The fold of codec.rs:232-238: one "key:value\r\n" line per entry.
RECURSIVE TrailerLines(_)
TrailerLines(m) ==
    IF m = <<>> THEN <<>>
    ELSE Head(m).key \o <<58>> \o Head(m).value \o <<13, 10>> \o TrailerLines(Tail(m))

make_trailers_frame_total_len(trailers) ==
    LET lines == TrailerLines(trailers)
        len == Len(lines)
    IN  <<GRPC_WEB_TRAILERS_BIT>> \o PutU32(len + FRAME_HEADER_SIZE) \o lines

make_trailers_frame(trailers) ==
    LET lines == TrailerLines(trailers)
        len == Len(lines)
    IN  <<GRPC_WEB_TRAILERS_BIT>> \o PutU32(len) \o lines

-----------------------------------------------------------------------------
(* WebCall: the request direction (codec.rs:66-119).                        *)

max_decodable_all(b) == Len(b)
max_decodable(b) == (Len(b) \div 4) * 4

decode_chunk_first_quad(b) ==
    IF Len(b) = 0 \/ Len(b) < 4 THEN [res |-> "none", bytes |-> <<>>, buf |-> b]
    ELSE LET d == Base64Decode(SubSeq(b, 1, 4))
             rest == SubSeq(b, 5, Len(b))
         IN  IF d.ok THEN [res |-> "ok", bytes |-> d.val, buf |-> rest]
             ELSE [res |-> "err", bytes |-> <<>>, buf |-> rest]

\* decode_chunk: Ok(None) below 4 buffered bytes; otherwise the largest
\* multiple-of-4 prefix is split off the buffer and base64-decoded.
decode_chunk(b) ==
    IF Len(b) = 0 \/ Len(b) < 4 THEN [res |-> "none", bytes |-> <<>>, buf |-> b]
    ELSE LET index == max_decodable(b)
             d == Base64Decode(SubSeq(b, 1, index))
             rest == SubSeq(b, index + 1, Len(b))
         IN  IF d.ok THEN [res |-> "ok", bytes |-> d.val, buf |-> rest]
             ELSE [res |-> "err", bytes |-> <<>>, buf |-> rest]

AtEndPending(b) == Pending

\* poll_decode when the inner body has ended (codec.rs:104-110).
Malformed == internal_error("malformed base64 request")
AtEndNoCheck(b) == ReadyNone
AtEnd(b) == IF Len(b) > 0 THEN ReadySome(Malformed) ELSE ReadyNone

RECURSIVE DecodeLoop_pending_drops(_, _, _)
DecodeLoop_pending_drops(b, items, ready) ==
    LET c == decode_chunk(b)
    IN  IF c.res = "ok" THEN
            [poll |-> ReadySome(DataItem(c.bytes)), buf |-> c.buf, items |-> items]
        ELSE IF c.res = "err" THEN
            [poll |-> ReadySome(internal_error("decode")), buf |-> c.buf, items |-> items]
        ELSE IF ready = 0 THEN
            [poll |-> Pending, buf |-> <<>>, items |-> items]
        ELSE IF items = <<>> THEN
            [poll |-> AtEnd(b), buf |-> b, items |-> items]
        ELSE IF Head(items).ok THEN
            DecodeLoop_pending_drops(b \o Head(items).data, Tail(items), ready - 1)
        ELSE
            [poll |-> ReadySome(internal_error("read")), buf |-> b, items |-> Tail(items)]

\* The Base64 loop of poll_decode.  ready is the number of polls of the inner
\* body that return Ready before one returns Pending.
RECURSIVE DecodeLoop(_, _, _)
DecodeLoop(b, items, ready) ==
    LET c == decode_chunk(b)
    IN  IF c.res = "ok" THEN
            [poll |-> ReadySome(DataItem(c.bytes)), buf |-> c.buf, items |-> items]
        ELSE IF c.res = "err" THEN
            [poll |-> ReadySome(internal_error("decode")), buf |-> c.buf, items |-> items]
        ELSE IF ready = 0 THEN
            [poll |-> Pending, buf |-> b, items |-> items]
        ELSE IF items = <<>> THEN
            [poll |-> AtEnd(b), buf |-> b, items |-> items]
        ELSE IF Head(items).ok THEN
            DecodeLoop(b \o Head(items).data, Tail(items), ready - 1)
        ELSE
            [poll |-> ReadySome(internal_error("read")), buf |-> b, items |-> Tail(items)]

poll_decode(enc, b, items, ready) ==
    IF enc = "Base64" THEN DecodeLoop(b, items, ready)
    ELSE IF ready = 0 THEN [poll |-> Pending, buf |-> b, items |-> items]
    ELSE IF items = <<>> THEN [poll |-> ReadyNone, buf |-> b, items |-> items]
    ELSE [poll |-> ReadySome(IF Head(items).ok THEN DataItem(Head(items).data)
                             ELSE internal_error("read")),
          buf |-> b, items |-> Tail(items)]

-----------------------------------------------------------------------------
(* WebCall: the response direction (codec.rs:121-153).                      *)

\* The frame as it is emitted (codec.rs:140-142).
EncodeFrameRaw(enc, frame) == frame
EncodeFrame(enc, frame) == IF enc = "Base64" THEN Base64Encode(frame) ELSE frame

\* The one-shot flag once the frame is built (codec.rs:144).
FlagKept == TRUE
FlagAfterFrame == FALSE

poll_encode_raw_data(enc, flag, items, trailers, readyData, readyTrailers) ==
    IF ~readyData THEN
        [poll |-> Pending, flag |-> flag, items |-> items, polled |-> 0]
    ELSE IF items # <<>> THEN
        [poll |-> ReadySome(IF ~Head(items).ok THEN internal_error("read")
                            ELSE DataItem(Head(items).data)),
         flag |-> flag, items |-> Tail(items), polled |-> 0]
    ELSE IF flag THEN
        IF ~readyTrailers THEN
            [poll |-> Pending, flag |-> flag, items |-> items, polled |-> 0]
        ELSE IF trailers.tag = "Some" THEN
            LET frame == make_trailers_frame(trailers.map)
            IN  [poll |-> ReadySome(TrailersItem(EncodeFrame(enc, frame))),
                 flag |-> FlagAfterFrame, items |-> items, polled |-> 1]
        ELSE IF trailers.tag = "None" THEN
            [poll |-> ReadyNone, flag |-> flag, items |-> items, polled |-> 1]
        ELSE
            [poll |-> ReadySome(internal_error("trailers")),
             flag |-> flag, items |-> items, polled |-> 1]
    ELSE [poll |-> ReadyNone, flag |-> flag, items |-> items, polled |-> 0]

\* readyData / readyTrailers: whether the inner body's poll_data /
\* poll_trailers returns Ready in this poll.  polled counts the polls of the
\* trailing metadata that completed.
poll_encode(enc, flag, items, trailers, readyData, readyTrailers) ==
    IF ~readyData THEN
        [poll |-> Pending, flag |-> flag, items |-> items, polled |-> 0]
    ELSE IF items # <<>> THEN
        [poll |-> ReadySome(IF ~Head(items).ok THEN internal_error("read")
                            ELSE IF enc = "Base64"
                                 THEN DataItem(Base64Encode(Head(items).data))
                                 ELSE DataItem(Head(items).data)),
         flag |-> flag, items |-> Tail(items), polled |-> 0]
    ELSE IF flag THEN
        IF ~readyTrailers THEN
            [poll |-> Pending, flag |-> flag, items |-> items, polled |-> 0]
        ELSE IF trailers.tag = "Some" THEN
            LET frame == make_trailers_frame(trailers.map)
            IN  [poll |-> ReadySome(TrailersItem(EncodeFrame(enc, frame))),
                 flag |-> FlagAfterFrame, items |-> items, polled |-> 1]
        ELSE IF trailers.tag = "None" THEN
            [poll |-> ReadyNone, flag |-> flag, items |-> items, polled |-> 1]
        ELSE
            [poll |-> ReadySome(internal_error("trailers")),
             flag |-> flag, items |-> items, polled |-> 1]
    ELSE [poll |-> ReadyNone, flag |-> flag, items |-> items, polled |-> 0]

-----------------------------------------------------------------------------
(* Header maps: functions from (lower-case) header names to values.         *)

EmptyHeaders == [k \in {} |-> ""]
Has(h, k) == k \in DOMAIN h
Insert(h, k, v) == [x \in DOMAIN h \cup {k} |-> IF x = k THEN v ELSE h[x]]
Remove(h, k) == [x \in DOMAIN h \ {k} |-> h[x]]
ExtendKeep(h, other) ==
    [x \in DOMAIN h \cup DOMAIN other |-> IF x \in DOMAIN h THEN h[x] ELSE other[x]]

\* HeaderMap::extend with another HeaderMap: a key of other replaces the key's
\* values in h.
Extend(h, other) ==
    [x \in DOMAIN h \cup DOMAIN other |-> IF x \in DOMAIN other THEN other[x] ELSE h[x]]

CONTENT_TYPE == "content-type"
CONTENT_LENGTH == "content-length"
ACCEPT == "accept"
ACCEPT_ENCODING == "accept-encoding"
TE == "te"
ORIGIN == "origin"
ALLOW_CREDENTIALS == "access-control-allow-credentials"
ALLOW_HEADERS == "access-control-allow-headers"
ALLOW_METHODS == "access-control-allow-methods"
ALLOW_ORIGIN == "access-control-allow-origin"
EXPOSE_HEADERS == "access-control-expose-headers"
MAX_AGE == "access-control-max-age"
REQUEST_HEADERS == "access-control-request-headers"
REQUEST_METHOD == "access-control-request-method"

GRPC_WEB == "application/grpc-web"
GRPC_WEB_PROTO == "application/grpc-web+proto"
GRPC_WEB_TEXT == "application/grpc-web-text"
GRPC_WEB_TEXT_PROTO == "application/grpc-web-text+proto"

\* A header value with a byte outside visible ASCII: HeaderValue::to_str fails.
NonAscii == "<non-ascii>"
\* The same inside a value given character by character.
NonAsciiChar == "<ff>"

\* Whether the char sequence hay contains needle (str::contains).
Contains(hay, needle) ==
    \E i \in 1..(Len(hay) - Len(needle) + 1) : SubSeq(hay, i, i + Len(needle) - 1) = needle

XGrpcWeb == <<"x", "-", "g", "r", "p", "c", "-", "w", "e", "b">>

-----------------------------------------------------------------------------
(* Encoding (codec.rs:202-224).                                             *)

\* Encoding::from_header of headers.get(name).
from_header(headers, name) ==
    IF Has(headers, name) /\ headers[name] # NonAscii
       /\ headers[name] \in {GRPC_WEB_TEXT_PROTO, GRPC_WEB_TEXT}
    THEN "Base64" ELSE "None"

from_content_type(headers) == from_header(headers, CONTENT_TYPE)
from_accept_of_content_type(headers) == from_header(headers, CONTENT_TYPE)
from_accept(headers) == from_header(headers, ACCEPT)

to_content_type(enc) == IF enc = "Base64" THEN GRPC_WEB_TEXT_PROTO ELSE GRPC_WEB_PROTO

-----------------------------------------------------------------------------
(* Config and Cors (config.rs).                                             *)

DEFAULT_MAX_AGE_SECS == 86400
DEFAULT_EXPOSED_HEADERS == {"grpc-status", "grpc-message"}
DEFAULT_ALLOWED_METHODS == {"POST", "OPTIONS"}

AnyOrigin == [any |-> TRUE, only |-> {}]
Only(origins) == [any |-> FALSE, only |-> origins]

\* Option<Duration>.
NoDuration == [some |-> FALSE, secs |-> 0, nanos |-> 0]
SomeDuration(secs, nanos) == [some |-> TRUE, secs |-> secs, nanos |-> nanos]

\* Every order in which a set can be iterated.
RECURSIVE Perms(_)
Perms(S) ==
    IF S = {} THEN {<<>>}
    ELSE UNION {{<<x>> \o p : p \in Perms(S \ {x})} : x \in S}

\* The Config behind the Arc of Cors; exposed_headers is given in the order
\* the HashSet iterates.
CfgNow ==
    [allowed_origins |-> allowed_origins, exposed_headers |-> exposedIter,
     max_age |-> max_age, allow_credentials |-> allow_credentials]

is_allowed_any(allowed, origin) == TRUE
is_allowed(allowed, origin) == allowed.any \/ origin \in allowed.only

RECURSIVE JoinRest(_)
JoinRest(values) ==
    IF values = <<>> THEN "" ELSE "," \o Head(values) \o JoinRest(Tail(values))

join_header_value(values) ==
    IF values = <<>> THEN "" ELSE Head(values) \o JoinRest(Tail(values))

common_headers(cfg, origin) ==
    LET h1 == Insert(EmptyHeaders, ALLOW_ORIGIN, origin)
        h2 == Insert(h1, EXPOSE_HEADERS, join_header_value(cfg.exposed_headers))
    IN  IF cfg.allow_credentials THEN Insert(h2, ALLOW_CREDENTIALS, "true") ELSE h2

CorsOk(h) == [ok |-> TRUE, err |-> "", headers |-> h]
CorsErr(e) == [ok |-> FALSE, err |-> e, headers |-> EmptyHeaders]

simple_requires_origin(cfg, headers) ==
    IF Has(headers, ORIGIN) /\ is_allowed(cfg.allowed_origins, headers[ORIGIN])
    THEN CorsOk(common_headers(cfg, headers[ORIGIN]))
    ELSE CorsErr("OriginNotAllowed")

simple(cfg, headers) ==
    IF Has(headers, ORIGIN) THEN
        IF is_allowed(cfg.allowed_origins, headers[ORIGIN])
        THEN CorsOk(common_headers(cfg, headers[ORIGIN]))
        ELSE CorsErr("OriginNotAllowed")
    ELSE CorsOk(EmptyHeaders)

\* Method::from_bytes: the values that are no valid method token.
InvalidMethodBytes == {"", "PO ST"}

is_method_allowed(headers) ==
    IF Has(headers, REQUEST_METHOD) THEN
        IF headers[REQUEST_METHOD] \notin InvalidMethodBytes
        THEN headers[REQUEST_METHOD] \in DEFAULT_ALLOWED_METHODS
        ELSE FALSE
    ELSE FALSE

preflight_without_max_age(cfg, req_headers, origin, request_headers_header) ==
    IF ~is_allowed(cfg.allowed_origins, origin) THEN CorsErr("OriginNotAllowed")
    ELSE IF ~is_method_allowed(req_headers) THEN CorsErr("MethodNotAllowed")
    ELSE LET h1 == common_headers(cfg, origin)
             h2 == Insert(h1, ALLOW_METHODS, "POST,OPTIONS")
         IN  CorsOk(Insert(h2, ALLOW_HEADERS, request_headers_header))

preflight_method_first(cfg, req_headers, origin, request_headers_header) ==
    IF ~is_method_allowed(req_headers) THEN CorsErr("MethodNotAllowed")
    ELSE IF ~is_allowed(cfg.allowed_origins, origin) THEN CorsErr("OriginNotAllowed")
    ELSE LET h1 == common_headers(cfg, origin)
             h2 == Insert(h1, ALLOW_METHODS, "POST,OPTIONS")
             h3 == Insert(h2, ALLOW_HEADERS, request_headers_header)
         IN  CorsOk(IF cfg.max_age.some
                    THEN Insert(h3, MAX_AGE, ToString(cfg.max_age.secs))
                    ELSE h3)

preflight(cfg, req_headers, origin, request_headers_header) ==
    IF ~is_allowed(cfg.allowed_origins, origin) THEN CorsErr("OriginNotAllowed")
    ELSE IF ~is_method_allowed(req_headers) THEN CorsErr("MethodNotAllowed")
    ELSE LET h1 == common_headers(cfg, origin)
             h2 == Insert(h1, ALLOW_METHODS, "POST,OPTIONS")
             h3 == Insert(h2, ALLOW_HEADERS, request_headers_header)
         IN  CorsOk(IF cfg.max_age.some
                    THEN Insert(h3, MAX_AGE, ToString(cfg.max_age.secs))
                    ELSE h3)

-----------------------------------------------------------------------------
(* Bodies, requests and responses.                                          *)

\* A body that is not a WebCall: its data items and its trailing metadata.
RawBody(items, trailers) == [kind |-> "Raw", data |-> items, trailers |-> trailers]
\* Body::new(Box::pin(futures::stream::empty())).
EmptyBody == RawBody(<<>>, NoTrailers)

\* WebCall::new (codec.rs:53-64).
WebCallNew(inner, dir, enc) ==
    [kind |-> "WebCall", inner |-> inner, direction |-> dir, encoding |-> enc,
     buf |-> <<>>, poll_trailers |-> TRUE]

Request(method, uri, version, headers, body) ==
    [method |-> method, uri |-> uri, version |-> version, headers |-> headers, body |-> body]
NoRequest == Request("", "", "", EmptyHeaders, EmptyBody)

\* Ok(response) and Err(error) of a service call.
Response(status, headers, body) ==
    [ok |-> TRUE, status |-> status, headers |-> headers, body |-> body]
ServiceError == [ok |-> FALSE, status |-> 0, headers |-> EmptyHeaders, body |-> EmptyBody]
NoResult == [ok |-> FALSE, status |-> -1, headers |-> EmptyHeaders, body |-> EmptyBody]

StatusOK == 200
StatusNoContent == 204
StatusBadRequest == 400
StatusForbidden == 403
StatusMethodNotAllowed == 405

\* WebService::no_content and WebService::response (lib.rs:98-118).
no_content(headers) == Response(StatusNoContent, Extend(EmptyHeaders, headers), EmptyBody)
response(status) == Response(status, EmptyHeaders, EmptyBody)

-----------------------------------------------------------------------------
(* The classifier RequestKind::new (lib.rs:252-281).                        *)

InFlight(method, enc, accept) ==
    [kind |-> "InFlight", method |-> method, encoding |-> enc, accept |-> accept,
     origin |-> "", request_headers |-> <<>>, version |-> ""]
PreFlight(origin, request_headers) ==
    [kind |-> "PreFlight", method |-> "", encoding |-> "None", accept |-> "None",
     origin |-> origin, request_headers |-> request_headers, version |-> ""]
Other(version) ==
    [kind |-> "Other", method |-> "", encoding |-> "None", accept |-> "None",
     origin |-> "", request_headers |-> <<>>, version |-> version]

RequestKindNew_h2_other(headers, method, version) ==
    IF version = "HTTP/2.0" THEN Other(version)
    ELSE IF Has(headers, CONTENT_TYPE) /\ headers[CONTENT_TYPE] # NonAscii
       /\ headers[CONTENT_TYPE] \in {GRPC_WEB, GRPC_WEB_PROTO, GRPC_WEB_TEXT, GRPC_WEB_TEXT_PROTO}
    THEN InFlight(method, from_content_type(headers), from_accept(headers))
    ELSE IF method = "OPTIONS" /\ Has(headers, ORIGIN) /\ Has(headers, REQUEST_HEADERS)
            /\ (\A i \in 1..Len(headers[REQUEST_HEADERS]) :
                    headers[REQUEST_HEADERS][i] # NonAsciiChar)
            /\ Contains(headers[REQUEST_HEADERS], XGrpcWeb)
    THEN PreFlight(headers[ORIGIN], headers[REQUEST_HEADERS])
    ELSE Other(version)

RequestKindNew_preflight_first(headers, method, version) ==
    IF method = "OPTIONS" /\ Has(headers, ORIGIN) /\ Has(headers, REQUEST_HEADERS)
            /\ (\A i \in 1..Len(headers[REQUEST_HEADERS]) :
                    headers[REQUEST_HEADERS][i] # NonAsciiChar)
            /\ Contains(headers[REQUEST_HEADERS], XGrpcWeb)
    THEN PreFlight(headers[ORIGIN], headers[REQUEST_HEADERS])
    ELSE IF Has(headers, CONTENT_TYPE) /\ headers[CONTENT_TYPE] # NonAscii
       /\ headers[CONTENT_TYPE] \in {GRPC_WEB, GRPC_WEB_PROTO, GRPC_WEB_TEXT, GRPC_WEB_TEXT_PROTO}
    THEN InFlight(method, from_content_type(headers), from_accept(headers))
    ELSE Other(version)

RequestKindNew(headers, method, version) ==
    IF Has(headers, CONTENT_TYPE) /\ headers[CONTENT_TYPE] # NonAscii
       /\ headers[CONTENT_TYPE] \in {GRPC_WEB, GRPC_WEB_PROTO, GRPC_WEB_TEXT, GRPC_WEB_TEXT_PROTO}
    THEN InFlight(method, from_content_type(headers), from_accept(headers))
    ELSE IF method = "OPTIONS" /\ Has(headers, ORIGIN) /\ Has(headers, REQUEST_HEADERS)
            /\ (\A i \in 1..Len(headers[REQUEST_HEADERS]) :
                    headers[REQUEST_HEADERS][i] # NonAsciiChar)
            /\ Contains(headers[REQUEST_HEADERS], XGrpcWeb)
    THEN PreFlight(headers[ORIGIN], headers[REQUEST_HEADERS])
    ELSE Other(version)

-----------------------------------------------------------------------------
(* The dispatcher WebService::call (lib.rs:135-232).                        *)

coerce_request_keep_length(r, enc) ==
    LET h2 == Insert(r.headers, CONTENT_TYPE, "application/grpc")
        h3 == Insert(h2, TE, "trailers")
        h4 == Insert(h3, ACCEPT_ENCODING, "identity,deflate,gzip")
    IN  [r EXCEPT !.headers = h4, !.body = WebCallNew(@, "Request", enc)]

coerce_request(r, enc) ==
    LET h1 == Remove(r.headers, CONTENT_LENGTH)
        h2 == Insert(h1, CONTENT_TYPE, "application/grpc")
        h3 == Insert(h2, TE, "trailers")
        h4 == Insert(h3, ACCEPT_ENCODING, "identity,deflate,gzip")
    IN  [r EXCEPT !.headers = h4, !.body = WebCallNew(@, "Request", enc)]

coerce_response_binary(res, enc) ==
    Response(res.status,
             Insert(res.headers, CONTENT_TYPE, to_content_type(enc)),
             WebCallNew(res.body, "Response", "None"))

coerce_response(res, enc) ==
    Response(res.status,
             Insert(res.headers, CONTENT_TYPE, to_content_type(enc)),
             WebCallNew(res.body, "Response", enc))

\* What call does with request r under cfg when the inner service, if it is
\* invoked, returns er: the result, the number of invocations of the inner
\* service and the request it was given.
Outcome(res, calls, ereq) == [result |-> res, engineCalls |-> calls, engineReq |-> ereq]

call_error_answered(cfg, r, er) ==
    LET k == RequestKindNew(r.headers, r.method, r.version)
    IN  IF k.kind = "InFlight" /\ k.method = "POST" THEN
            LET c == simple(cfg, r.headers)
            IN  IF c.ok THEN
                    Outcome(LET resp == coerce_response(
                                            IF er.ok THEN er
                                            ELSE Response(StatusOK, EmptyHeaders, EmptyBody),
                                            k.accept)
                            IN  [resp EXCEPT !.headers = Extend(@, c.headers)],
                            1, coerce_request(r, k.encoding))
                ELSE Outcome(response(StatusForbidden), 0, NoRequest)
        ELSE IF k.kind = "InFlight" THEN
            Outcome(response(StatusMethodNotAllowed), 0, NoRequest)
        ELSE IF k.kind = "PreFlight" THEN
            LET p == preflight(cfg, r.headers, k.origin, k.request_headers)
            IN  IF p.ok THEN Outcome(no_content(p.headers), 0, NoRequest)
                ELSE Outcome(response(StatusForbidden), 0, NoRequest)
        ELSE IF k.version = "HTTP/2.0" THEN Outcome(er, 1, r)
        ELSE Outcome(response(StatusBadRequest), 0, NoRequest)

call_other_coerced(cfg, r, er) ==
    LET k == RequestKindNew(r.headers, r.method, r.version)
    IN  IF k.kind = "InFlight" /\ k.method = "POST" THEN
            LET c == simple(cfg, r.headers)
            IN  IF c.ok THEN
                    Outcome(IF er.ok
                            THEN LET resp == coerce_response(er, k.accept)
                                 IN  [resp EXCEPT !.headers = Extend(@, c.headers)]
                            ELSE er,
                            1, coerce_request(r, k.encoding))
                ELSE Outcome(response(StatusForbidden), 0, NoRequest)
        ELSE IF k.kind = "InFlight" THEN
            Outcome(response(StatusMethodNotAllowed), 0, NoRequest)
        ELSE IF k.kind = "PreFlight" THEN
            LET p == preflight(cfg, r.headers, k.origin, k.request_headers)
            IN  IF p.ok THEN Outcome(no_content(p.headers), 0, NoRequest)
                ELSE Outcome(response(StatusForbidden), 0, NoRequest)
        ELSE Outcome(IF er.ok THEN coerce_response(er, k.accept) ELSE er,
                     1, coerce_request(r, k.encoding))

call(cfg, r, er) ==
    LET k == RequestKindNew(r.headers, r.method, r.version)
    IN  IF k.kind = "InFlight" /\ k.method = "POST" THEN
            LET c == simple(cfg, r.headers)
            IN  IF c.ok THEN
                    Outcome(IF er.ok
                            THEN LET resp == coerce_response(er, k.accept)
                                 IN  [resp EXCEPT !.headers = Extend(@, c.headers)]
                            ELSE er,
                            1, coerce_request(r, k.encoding))
                ELSE Outcome(response(StatusForbidden), 0, NoRequest)
        ELSE IF k.kind = "InFlight" THEN
            Outcome(response(StatusMethodNotAllowed), 0, NoRequest)
        ELSE IF k.kind = "PreFlight" THEN
            LET p == preflight(cfg, r.headers, k.origin, k.request_headers)
            IN  IF p.ok THEN Outcome(no_content(p.headers), 0, NoRequest)
                ELSE Outcome(response(StatusForbidden), 0, NoRequest)
        ELSE IF k.version = "HTTP/2.0" THEN Outcome(er, 1, r)
        ELSE Outcome(response(StatusBadRequest), 0, NoRequest)

-----------------------------------------------------------------------------
(* Polling a WebCall (codec.rs:164-172).                                    *)

\* The WebCall the codec variables hold, none before one is constructed.
NoPoll == [tag |-> "", item |-> DataItem(<<>>)]

CodecIdle ==
    /\ direction = ""
    /\ encoding = ""
    /\ buf = <<>>
    /\ poll_trailers = TRUE
    /\ innerData = <<>>
    /\ innerTrailers = NoTrailers
    /\ emitted = <<>>
    /\ lastPoll = NoPoll
    /\ trailerPolls = 0

\* The codec variables hold the WebCall w as constructed.
CodecHolds(w) ==
    /\ direction = w.direction
    /\ encoding = w.encoding
    /\ buf = w.buf
    /\ poll_trailers = w.poll_trailers
    /\ innerData = w.inner.data
    /\ innerTrailers = w.inner.trailers
    /\ emitted = <<>>
    /\ lastPoll = NoPoll
    /\ trailerPolls = 0

\* The items the inner body held when the WebCall was constructed.
SrcAll == IF direction = "Request" THEN req.body.data ELSE engineRes.body.data

Observe(poll) ==
    /\ lastPoll' = poll
    /\ emitted' = IF poll.tag = "Some" THEN Append(emitted, poll.item) ELSE emitted

\* WebCall::is_end_stream is the inner body's (codec.rs:181-183).  The inner
\* body may report true only when it has no data and no trailing metadata
\* left; it is taken to report true whenever it may.
is_end_stream == innerData = <<>> /\ innerTrailers.tag = "None"

\* One poll_data of the WebCall, whatever the inner body does during it.
PollData ==
    /\ direction \in {"Request", "Response"}
    /\ Len(emitted) < Len(SrcAll) + 1 + MaxExtraPulls
    /\ trailerPolls <= MaxExtraPulls
    /\ IF direction = "Request"
       THEN \E ready \in 0..(Len(innerData) + 1) :
                LET r == poll_decode(encoding, buf, innerData, ready)
                IN  /\ buf' = r.buf
                    /\ innerData' = r.items
                    /\ Observe(r.poll)
                    /\ UNCHANGED <<poll_trailers, trailerPolls>>
       ELSE \E readyData \in BOOLEAN, readyTrailers \in BOOLEAN :
                LET r == poll_encode(encoding, poll_trailers, innerData, innerTrailers,
                                     readyData, readyTrailers)
                IN  /\ poll_trailers' = r.flag
                    /\ innerData' = r.items
                    /\ trailerPolls' = trailerPolls + r.polled
                    /\ Observe(r.poll)
                    /\ UNCHANGED buf
    /\ UNCHANGED <<direction, encoding, innerTrailers>>
    /\ UNCHANGED <<configVars, callVars>>

-----------------------------------------------------------------------------
(* Config::new (config.rs:57-68) wrapped by Cors::new.                      *)

ConfigNew ==
    /\ allowed_origins = AnyOrigin
    /\ exposed_headers = DEFAULT_EXPOSED_HEADERS
    /\ max_age = SomeDuration(DEFAULT_MAX_AGE_SECS, 0)
    /\ allow_credentials = TRUE

\* The default Config with its two exposed headers iterated in one of the
\* two orders.
DefaultConfig ==
    /\ ConfigNew
    /\ exposedIter = <<"grpc-status", "grpc-message">>

-----------------------------------------------------------------------------
(* The request direction: the inner service pulls the body of the request   *)
(* that call handed to it.                                                  *)

Payloads == {SubSeq(p, 1, n) : p \in PayloadPatterns, n \in 0..MaxBytes}

\* A base64 text as a client may send it: whole, cut short by 1..3
\* characters, or with one character replaced by '!' or by '='.
Faulty(t) ==
    {t}
    \cup {SubSeq(t, 1, Len(t) - k) : k \in 1..Min(3, Len(t))}
    \cup {[t EXCEPT ![i] = c] : i \in 1..Len(t), c \in {33, 61}}

AsChunks(c) == [i \in 1..Len(c) |-> Chunk(c[i])]

\* items with one read error put in at any place.
WithError(items) ==
    {SubSeq(items, 1, j) \o <<ErrItem>> \o SubSeq(items, j + 1, Len(items)) : j \in 0..Len(items)}

TextSources ==
    UNION {{AsChunks(c) : c \in Chunkings(t, MaxChunks)}
           : t \in UNION {Faulty(Base64Encode(p)) : p \in Payloads}}
    \cup UNION {WithError(AsChunks(c))
                : c \in UNION {Chunkings(Base64Encode(p), MaxChunks) : p \in Payloads}}

BinarySources ==
    UNION {{AsChunks(c)} \cup WithError(AsChunks(c))
           : c \in UNION {Chunkings(p, MaxChunks) : p \in Payloads}}

\* The URIs of the calls a client makes.
UnaryCallUri == "/example.Example/UnaryCall"
Uris == {UnaryCallUri, "/example.Example/ServerStream"}

InFlightHeaders(ct) == Insert(EmptyHeaders, CONTENT_TYPE, ct)

InitDecode ==
    /\ DefaultConfig
    /\ phase = "serve"
    /\ \E ct \in {GRPC_WEB, GRPC_WEB_TEXT} :
       \E src \in (IF ct = GRPC_WEB THEN BinarySources ELSE TextSources) :
            req = Request("POST", UnaryCallUri, "HTTP/1.1", InFlightHeaders(ct),
                          RawBody(src, NoTrailers))
    /\ engineRes = NoResult
    /\ result = NoResult
    /\ LET o == call(CfgNow, req, engineRes)
       IN  /\ engineCalls = o.engineCalls
           /\ engineReq = o.engineReq
           /\ CodecHolds(o.engineReq.body)

NextDecode == PollData

SpecDecode == InitDecode /\ [][NextDecode]_vars

-----------------------------------------------------------------------------
(* The response direction: the server pulls the body of the response that   *)
(* call returned for an in-flight POST.                                     *)

\* "grpc-status", "grpc-message", "0" and "OK" in ASCII.
GrpcStatusKey == <<103, 114, 112, 99, 45, 115, 116, 97, 116, 117, 115>>
GrpcMessageKey == <<103, 114, 112, 99, 45, 109, 101, 115, 115, 97, 103, 101>>
StatusZero == [key |-> GrpcStatusKey, value |-> <<48>>]
MessageOK == [key |-> GrpcMessageKey, value |-> <<79, 75>>]

EngineTrailers ==
    {NoTrailers, TrailersErr, SomeTrailers(<<>>), SomeTrailers(<<StatusZero>>),
     SomeTrailers(<<StatusZero, MessageOK>>), SomeTrailers(<<MessageOK, StatusZero>>)}

EngineBodies == {RawBody(src, t) : src \in BinarySources, t \in EngineTrailers}

GrpcHeaders == Insert(EmptyHeaders, CONTENT_TYPE, "application/grpc")

\* The Accept header of a request: absent, or one of these values.
AcceptValues == {GRPC_WEB, GRPC_WEB_PROTO, GRPC_WEB_TEXT, GRPC_WEB_TEXT_PROTO}
WithAccept(h) == {h} \cup {Insert(h, ACCEPT, a) : a \in AcceptValues}

InitEncode ==
    /\ DefaultConfig
    /\ phase = "serve"
    /\ \E h \in WithAccept(InFlightHeaders(GRPC_WEB_TEXT)) :
            req = Request("POST", UnaryCallUri, "HTTP/1.1", h, EmptyBody)
    /\ \E b \in EngineBodies : engineRes = Response(StatusOK, GrpcHeaders, b)
    /\ LET o == call(CfgNow, req, engineRes)
       IN  /\ engineCalls = o.engineCalls
           /\ engineReq = o.engineReq
           /\ result = o.result
           /\ CodecHolds(o.result.body)

NextEncode == PollData

SpecEncode == InitEncode /\ [][NextEncode]_vars

-----------------------------------------------------------------------------
(* The Config builder (config.rs:70-118) and Cors::new (config.rs:133-137). *)

OriginSets == {{}, {"http://foo.com"}, {"http://bar.com"}}
ExtraExposed == {{"x-custom"}}
MaxAges == {NoDuration, SomeDuration(1, 500000000)}

allow_origins_extend(origins) ==
    /\ phase = "build"
    /\ allowed_origins' = Only(allowed_origins.only \cup origins)
    /\ UNCHANGED <<exposed_headers, exposedIter, max_age, allow_credentials, phase>>
    /\ UNCHANGED <<codecVars, callVars>>

allow_origins(origins) ==
    /\ phase = "build"
    /\ allowed_origins' = Only(origins)
    /\ UNCHANGED <<exposed_headers, exposedIter, max_age, allow_credentials, phase>>
    /\ UNCHANGED <<codecVars, callVars>>

expose_headers(headers) ==
    /\ phase = "build"
    /\ exposed_headers' = exposed_headers \cup headers
    /\ exposedIter' \in Perms(exposed_headers')
    /\ UNCHANGED <<allowed_origins, max_age, allow_credentials, phase>>
    /\ UNCHANGED <<codecVars, callVars>>

set_max_age(m) ==
    /\ phase = "build"
    /\ max_age' = m
    /\ UNCHANGED <<allowed_origins, exposed_headers, exposedIter, allow_credentials, phase>>
    /\ UNCHANGED <<codecVars, callVars>>

set_allow_credentials(b) ==
    /\ phase = "build"
    /\ allow_credentials' = b
    /\ UNCHANGED <<allowed_origins, exposed_headers, exposedIter, max_age, phase>>
    /\ UNCHANGED <<codecVars, callVars>>

CorsNew ==
    /\ phase = "build"
    /\ phase' = "serve"
    /\ UNCHANGED <<allowed_origins, exposed_headers, exposedIter, max_age, allow_credentials>>
    /\ UNCHANGED <<codecVars, callVars>>

-----------------------------------------------------------------------------
(* The requests a client sends and what the inner service returns.          *)

\* h, and h with header name set to each of values.
Opt(hs, name, values) == hs \cup {Insert(h, name, v) : h \in hs, v \in values}

Versions == {"HTTP/1.1", "HTTP/2.0", "HTTP/3.0"}
RequestOrigins == {"http://foo.com", "http://bar.com"}
ContentTypes ==
    {GRPC_WEB, GRPC_WEB_PROTO, GRPC_WEB_TEXT, GRPC_WEB_TEXT_PROTO, "application/grpc",
     "text/plain", NonAscii}

\* Headers a client may send that coerce_request rewrites, among another.
ClientExtras ==
    [k \in {CONTENT_LENGTH, TE, ACCEPT_ENCODING, "x-user-agent"} |->
        CASE k = CONTENT_LENGTH -> "12"
          [] k = TE -> "gzip"
          [] k = ACCEPT_ENCODING -> "br"
          [] OTHER -> "grpc-web-javascript/0.1"]

ContentTypeXGrpcWeb == <<"c", "o", "n", "t", "e", "n", "t", "-", "t", "y", "p", "e", ",">> \o XGrpcWeb
UpperXGrpcWeb == <<"X", "-", "G", "r", "p", "c", "-", "W", "e", "b">>

\* In-flight POSTs as a browser client sends them.
WebPostHeaders ==
    LET h1 == {InFlightHeaders(ct) : ct \in {GRPC_WEB, GRPC_WEB_TEXT}}
        h2 == Opt(h1, ACCEPT, {GRPC_WEB_PROTO, GRPC_WEB_TEXT, "*/*"})
        h3 == Opt(h2, ORIGIN, RequestOrigins)
    IN  h3 \cup {Extend(h, ClientExtras) : h \in h3}

\* POSTs of every content type, gRPC-Web or not.
AnyPostHeaders == Opt(Opt({EmptyHeaders}, CONTENT_TYPE, ContentTypes), ORIGIN, {"http://foo.com"})

GetHeaders ==
    Opt(Opt({EmptyHeaders}, CONTENT_TYPE, {GRPC_WEB}), ORIGIN, {"http://foo.com"})

OptionsHeaders ==
    LET h1 == Opt({EmptyHeaders}, CONTENT_TYPE, {GRPC_WEB})
        h2 == Opt(h1, ORIGIN, RequestOrigins)
        exact == {Insert(h, REQUEST_HEADERS, XGrpcWeb) : h \in h2}
        other == h2 \cup {Insert(h, REQUEST_HEADERS, v) : h \in h2,
                          v \in {ContentTypeXGrpcWeb, UpperXGrpcWeb, XGrpcWeb \o <<NonAsciiChar>>}}
    IN  Opt(exact, REQUEST_METHOD, {"POST", "OPTIONS", "GET", "post", "PO ST"})
        \cup {Insert(h, REQUEST_METHOD, "POST") : h \in other}

ClientBody == RawBody(<<Chunk(<<0, 0, 0, 0, 1, 77>>)>>, NoTrailers)

Requests ==
    {Request("POST", u, "HTTP/1.1", h, ClientBody) : u \in Uris, h \in WebPostHeaders}
    \cup {Request("POST", UnaryCallUri, v, h, ClientBody) : v \in Versions, h \in AnyPostHeaders}
    \cup {Request("GET", UnaryCallUri, v, h, EmptyBody) : v \in Versions, h \in GetHeaders}
    \cup {Request("OPTIONS", UnaryCallUri, v, h, EmptyBody) :
                v \in Versions, h \in OptionsHeaders}

\* Headers an inner service may set, CORS headers of its own among them.
EngineCorsHeaders ==
    [k \in {CONTENT_TYPE, ALLOW_ORIGIN, ALLOW_CREDENTIALS, EXPOSE_HEADERS, "grpc-encoding"} |->
        CASE k = CONTENT_TYPE -> "application/grpc"
          [] k = ALLOW_ORIGIN -> "http://engine.example"
          [] k = ALLOW_CREDENTIALS -> "true"
          [] k = EXPOSE_HEADERS -> "x-engine"
          [] OTHER -> "identity"]

EngineBody == RawBody(<<Chunk(<<0, 0, 0, 0, 1, 77>>)>>, SomeTrailers(<<StatusZero>>))

EngineResults ==
    {Response(StatusOK, GrpcHeaders, EngineBody),
     Response(StatusOK, EngineCorsHeaders, EngineBody),
     Response(503, EmptyHeaders, EmptyBody),
     ServiceError}

-----------------------------------------------------------------------------
(* Serving requests.                                                        *)

CallIdle ==
    /\ req = NoRequest
    /\ result = NoResult
    /\ engineCalls = 0
    /\ engineReq = NoRequest
    /\ engineRes = NoResult

\* WebService::call on request r; er is what the inner service returns if it
\* is invoked.
Call(r, er) ==
    /\ phase = "serve"
    /\ req = NoRequest
    /\ LET o == call(CfgNow, r, er)
       IN  /\ req' = r
           /\ result' = o.result
           /\ engineCalls' = o.engineCalls
           /\ engineReq' = o.engineReq
           /\ engineRes' = IF o.engineCalls > 0 THEN er ELSE NoResult
    /\ UNCHANGED <<codecVars, configVars>>

\* The server has sent the result and takes the next request.
Respond ==
    /\ phase = "serve"
    /\ req # NoRequest
    /\ req' = NoRequest
    /\ result' = NoResult
    /\ engineCalls' = 0
    /\ engineReq' = NoRequest
    /\ engineRes' = NoResult
    /\ UNCHANGED <<codecVars, configVars>>

Init ==
    /\ ConfigNew
    /\ exposedIter \in Perms(DEFAULT_EXPOSED_HEADERS)
    /\ phase = "build"
    /\ CallIdle
    /\ CodecIdle

Next ==
    \/ \E origins \in OriginSets : allow_origins(origins)
    \/ \E headers \in ExtraExposed : expose_headers(headers)
    \/ \E m \in MaxAges : set_max_age(m)
    \/ \E b \in BOOLEAN : set_allow_credentials(b)
    \/ CorsNew
    \/ \E r \in Requests, er \in EngineResults : Call(r, er)
    \/ Respond

Spec == Init /\ [][Next]_vars

-----------------------------------------------------------------------------
(* The claims about the request direction, checked under SpecDecode.        *)

\* The bytes the inner body held at construction, as one text.
SrcText == Concat([i \in 1..Len(SrcAll) |-> SrcAll[i].data])
\* The bytes of the items emitted so far.
EmittedBytes == Concat([i \in 1..Len(emitted) |-> emitted[i].data])

\* A source that delivers a valid base64 text (it decodes as a whole, so its
\* padding is at its end) in chunks, without a read error.
ValidTextSource ==
    /\ direction = "Request"
    /\ encoding = "Base64"
    /\ \A i \in 1..Len(SrcAll) : SrcAll[i].ok
    /\ Base64Decode(SrcText).ok

\* C1: a valid base64 text delivered in any chunks decodes to the decoding of
\* the whole text: no pull yields an error, what has been emitted is always a
\* prefix of the decoded text, and at the end of the stream it is all of it
\* and nothing is left in the buffer.
C1_Reblocking ==
    ValidTextSource =>
        LET whole == Base64Decode(SrcText).val
        IN  /\ \A i \in 1..Len(emitted) : emitted[i].kind = "data"
            /\ Len(EmittedBytes) <= Len(whole)
            /\ EmittedBytes = SubSeq(whole, 1, Len(EmittedBytes))
            /\ lastPoll.tag = "None" => (EmittedBytes = whole /\ buf = <<>> /\ innerData = <<>>)
            /\ (innerData = <<>> /\ lastPoll.tag = "Some" /\ Len(buf) = 0) => EmittedBytes = whole

\* C1's case: an 8-character text cut inside a 4-character block was
\* re-blocked into two decoded chunks and the stream has ended.
C1_Witness ==
    /\ ValidTextSource
    /\ Len(SrcText) = 8
    /\ Len(SrcAll) >= 2
    /\ Len(SrcAll[1].data) % 4 # 0
    /\ Len(emitted) = 2
    /\ lastPoll.tag = "None"

\* C2: when the inner body has ended, a Base64 request-direction pull yields a
\* clean end if the buffer is empty and the malformed-encoding error if it
\* holds 1, 2 or 3 bytes; neither is yielded in any other situation.
C2_Exhaustion ==
    [][(direction = "Request" /\ encoding = "Base64") =>
          /\ (innerData = <<>> /\ lastPoll'.tag # "Pending") =>
                IF buf = <<>> THEN lastPoll' = ReadyNone
                ELSE Len(buf) \in 1..3 /\ lastPoll' = ReadySome(Malformed)
          /\ lastPoll' = ReadyNone => (innerData' = <<>> /\ buf' = <<>>)
          /\ lastPoll' = ReadySome(Malformed) => (innerData' = <<>> /\ Len(buf') \in 1..3)
      ]_vars

\* C2's case: the text ended two characters into a block, after a chunk was
\* decoded, and the pull yielded the malformed-encoding error.
C2_Witness ==
    /\ direction = "Request"
    /\ encoding = "Base64"
    /\ innerData = <<>>
    /\ Len(buf) = 2
    /\ Len(emitted) = 2
    /\ emitted[1].kind = "data"
    /\ lastPoll = ReadySome(Malformed)

-----------------------------------------------------------------------------
(* The claims about the response direction, checked under SpecEncode.       *)

\* The raw bytes of the inner service's body.
RawBytes == Concat([i \in 1..Len(SrcAll) |-> SrcAll[i].data])

\* The response of an in-flight POST whose Accept header selects Base64, of
\* an inner body that delivers its chunks and trailing metadata without
\* error, once the trailers frame has been emitted.
TextResponseDone ==
    /\ direction = "Response"
    /\ Has(req.headers, ACCEPT)
    /\ req.headers[ACCEPT] \in {GRPC_WEB_TEXT, GRPC_WEB_TEXT_PROTO}
    /\ \A i \in 1..Len(SrcAll) : SrcAll[i].ok
    /\ innerTrailers.tag = "Some"
    /\ Len(emitted) > 0
    /\ emitted[Len(emitted)].kind = "trailers"

\* Every emitted chunk base64-decoded on its own, the results concatenated.
RECURSIVE DecodeEach(_)
DecodeEach(items) ==
    IF items = <<>> THEN DecOk(<<>>)
    ELSE LET d == Base64Decode(Head(items).data)
             r == DecodeEach(Tail(items))
         IN  IF d.ok /\ r.ok THEN DecOk(d.val \o r.val) ELSE DecErr

\* C3 as stated: the emitted chunks, concatenated and decoded as one base64
\* text, are the raw body bytes followed by the trailers frame, whatever the
\* lengths of the inner body's chunks.
C3_Original ==
    TextResponseDone =>
        /\ result.headers[CONTENT_TYPE] = GRPC_WEB_TEXT_PROTO
        /\ Base64Decode(EmittedBytes) = DecOk(RawBytes \o make_trailers_frame(innerTrailers.map))

\* C3 as amended: the Content-Type is application/grpc-web-text+proto; every
\* emitted chunk decoded on its own, the results concatenated, are the raw
\* body bytes followed by the trailers frame; the concatenation decodes as one
\* text to the same bytes when every chunk of the inner body has a length
\* that is a multiple of 3.
C3_TextResponse ==
    TextResponseDone =>
        LET expected == DecOk(RawBytes \o make_trailers_frame(innerTrailers.map))
        IN  /\ result.headers[CONTENT_TYPE] = GRPC_WEB_TEXT_PROTO
            /\ DecodeEach(emitted) = expected
            /\ (\A i \in 1..Len(SrcAll) : Len(SrcAll[i].data) % 3 = 0)
                  => Base64Decode(EmittedBytes) = expected

\* C3's case: a 3-byte chunk and the trailers frame were emitted as base64.
C3_Witness ==
    /\ TextResponseDone
    /\ Len(SrcAll) = 1
    /\ Len(SrcAll[1].data) = 3
    /\ innerTrailers.map = <<StatusZero>>
    /\ Len(emitted) = 2

\* "grpc-status:0\r\n" in ASCII.
StatusZeroLine == <<103, 114, 112, 99, 45, 115, 116, 97, 116, 117, 115, 58, 48, 13, 10>>

\* The trailers frame of the map {"grpc-status": "0"}, emitted unencoded.
StatusZeroFrameEmitted ==
    /\ direction = "Response"
    /\ encoding = "None"
    /\ innerTrailers = SomeTrailers(<<StatusZero>>)
    /\ Len(emitted) > 0
    /\ emitted[Len(emitted)].kind = "trailers"

\* C4 as stated: the frame is 0x80, the length 0x0000000D (13), then
\* "grpc-status:0\r\n".
C4_Original ==
    StatusZeroFrameEmitted =>
        emitted[Len(emitted)].data = <<128, 0, 0, 0, 13>> \o StatusZeroLine

\* C4 as amended: the frame is 0x80, the length 0x0000000F (15), then the 15
\* bytes of "grpc-status:0\r\n".
C4_StatusZeroFrame ==
    StatusZeroFrameEmitted =>
        /\ emitted[Len(emitted)].data = <<128, 0, 0, 0, 15>> \o StatusZeroLine
        /\ Len(StatusZeroLine) = 15

C4_Witness == StatusZeroFrameEmitted /\ Len(emitted) = 3

\* p is one "key:value\r\n" line per entry of m, in m's order.
RECURSIVE IsLines(_, _)
IsLines(p, m) ==
    IF m = <<>> THEN p = <<>>
    ELSE LET k == Head(m).key
             v == Head(m).value
             n == Len(k) + Len(v) + 3
         IN  /\ Len(p) >= n
             /\ SubSeq(p, 1, Len(k)) = k
             /\ p[Len(k) + 1] = 58
             /\ SubSeq(p, Len(k) + 2, Len(k) + 1 + Len(v)) = v
             /\ p[n - 1] = 13
             /\ p[n] = 10
             /\ IsLines(SubSeq(p, n + 1, Len(p)), Tail(m))

\* The trailers frames among the emitted items, decoded if emitted as base64.
EmittedFrames ==
    {IF encoding = "Base64" THEN Base64Decode(emitted[i].data) ELSE DecOk(emitted[i].data)
        : i \in {j \in 1..Len(emitted) : emitted[j].kind = "trailers"}}

\* C5: every trailers frame is 0x80, the big-endian u32 N, then N bytes: one
\* "key:value\r\n" line per entry of the map in its iteration order.
C5_FrameLayout ==
    direction = "Response" =>
        \A f \in EmittedFrames :
            /\ f.ok
            /\ Len(f.val) >= 5
            /\ f.val[1] = 128
            /\ LET N == f.val[2] * 16777216 + f.val[3] * 65536 + f.val[4] * 256 + f.val[5]
               IN  /\ Len(f.val) = 5 + N
                   /\ IsLines(SubSeq(f.val, 6, Len(f.val)), innerTrailers.map)

\* C5's case: the frame of a map of two entries was emitted.
C5_Witness ==
    /\ direction = "Response"
    /\ Len(innerTrailers.map) = 2
    /\ EmittedFrames # {}

\* The places of the trailers frames among the emitted items.
FramePlaces == {i \in 1..Len(emitted) : emitted[i].kind = "trailers"}

\* C6: at most one trailers frame is emitted, only when the inner body has
\* trailing metadata, and it is the last item emitted; when the metadata is
\* absent the stream ends without one.
C6_TrailersLast ==
    direction = "Response" =>
        /\ Cardinality(FramePlaces) <= 1
        /\ FramePlaces # {} => (innerTrailers.tag = "Some" /\ FramePlaces = {Len(emitted)})
        /\ (FramePlaces # {} /\ lastPoll.tag \in {"Some", "None"}) =>
                (lastPoll = ReadyNone \/ lastPoll = ReadySome(emitted[Len(emitted)]))
        /\ (innerTrailers.tag = "None" /\ trailerPolls > 0) =>
                (FramePlaces = {} /\ lastPoll.tag \in {"None", "Pending"})

\* C6's case: the frame was emitted and a later pull yielded the end of the
\* stream.
C6_Witness ==
    /\ direction = "Response"
    /\ FramePlaces # {}
    /\ Len(emitted) >= 2
    /\ lastPoll = ReadyNone

-----------------------------------------------------------------------------
(* The claims about the dispatcher and the CORS policy, checked under Spec. *)

GrpcWebTypes == {GRPC_WEB, GRPC_WEB_PROTO, GRPC_WEB_TEXT, GRPC_WEB_TEXT_PROTO}

\* call has answered an in-flight gRPC-Web POST.
InFlightPostServed ==
    /\ req # NoRequest
    /\ req.method = "POST"
    /\ Has(req.headers, CONTENT_TYPE)
    /\ req.headers[CONTENT_TYPE] \in GrpcWebTypes

\* The request's Origin is one the configuration allows.
OriginAllowed ==
    /\ Has(req.headers, ORIGIN)
    /\ (allowed_origins.any \/ req.headers[ORIGIN] \in allowed_origins.only)

AccessControlNames ==
    {ALLOW_CREDENTIALS, ALLOW_HEADERS, ALLOW_METHODS, ALLOW_ORIGIN, EXPOSE_HEADERS, MAX_AGE}

\* The configured exposed header names, comma-joined in some order.
ExposedJoined == {join_header_value(p) : p \in Perms(exposed_headers)}

\* C7: an in-flight gRPC-Web POST whose Origin is not in the allow-list is
\* answered 403 Forbidden with an empty body, and the inner service is not
\* invoked.
C7_Forbidden ==
    (InFlightPostServed /\ Has(req.headers, ORIGIN) /\ ~OriginAllowed) =>
        /\ result.ok
        /\ result.status = 403
        /\ result.body = EmptyBody
        /\ engineCalls = 0
        /\ engineReq = NoRequest

\* C7's case: the POST of a client at http://bar.com was answered when only
\* http://foo.com is allowed.
C7_Witness ==
    /\ InFlightPostServed
    /\ req.headers[CONTENT_TYPE] = GRPC_WEB
    /\ allowed_origins = Only({"http://foo.com"})
    /\ Has(req.headers, ORIGIN)
    /\ req.headers[ORIGIN] = "http://bar.com"
    /\ result.status = 403

\* C8 as stated: the response of an in-flight gRPC-Web POST whose Origin is
\* allowed has Allow-Origin equal to the Origin, Expose-Headers equal to the
\* comma-joined exposed header names, and Allow-Credentials: true if and only
\* if credentials are allowed, whatever headers the inner service set.
C8_Original ==
    (InFlightPostServed /\ OriginAllowed /\ engineRes.ok) =>
        /\ result.ok
        /\ Has(result.headers, ALLOW_ORIGIN)
        /\ result.headers[ALLOW_ORIGIN] = req.headers[ORIGIN]
        /\ Has(result.headers, EXPOSE_HEADERS)
        /\ result.headers[EXPOSE_HEADERS] \in ExposedJoined
        /\ (Has(result.headers, ALLOW_CREDENTIALS) /\ result.headers[ALLOW_CREDENTIALS] = "true")
              <=> allow_credentials

\* C8 as amended: Allow-Origin and Expose-Headers are as stated whatever the
\* inner service set; Allow-Credentials is "true" when credentials are
\* allowed, and otherwise it is as the inner service left it: absent unless
\* the inner service set it.
C8_SimpleHeaders ==
    (InFlightPostServed /\ OriginAllowed /\ engineRes.ok) =>
        /\ result.ok
        /\ engineCalls = 1
        /\ Has(result.headers, ALLOW_ORIGIN)
        /\ result.headers[ALLOW_ORIGIN] = req.headers[ORIGIN]
        /\ Has(result.headers, EXPOSE_HEADERS)
        /\ result.headers[EXPOSE_HEADERS] \in ExposedJoined
        /\ exposed_headers = DEFAULT_EXPOSED_HEADERS =>
              result.headers[EXPOSE_HEADERS]
                  \in {"grpc-status,grpc-message", "grpc-message,grpc-status"}
        /\ allow_credentials =>
              (Has(result.headers, ALLOW_CREDENTIALS) /\ result.headers[ALLOW_CREDENTIALS] = "true")
        /\ ~allow_credentials =>
              /\ Has(result.headers, ALLOW_CREDENTIALS) <=> Has(engineRes.headers, ALLOW_CREDENTIALS)
              /\ Has(result.headers, ALLOW_CREDENTIALS) =>
                    result.headers[ALLOW_CREDENTIALS] = engineRes.headers[ALLOW_CREDENTIALS]

\* C8's case: the inner service set CORS headers of its own and credentials
\* are not allowed.
C8_Witness ==
    /\ InFlightPostServed
    /\ OriginAllowed
    /\ engineRes.ok
    /\ Has(engineRes.headers, ALLOW_ORIGIN)
    /\ engineRes.headers[ALLOW_ORIGIN] # req.headers[ORIGIN]
    /\ ~allow_credentials
    /\ Cardinality(exposed_headers) = 3
    /\ result.status = 200

\* C9: an in-flight gRPC-Web POST without Origin passes the simple check with
\* an empty header set under every configuration: the inner service is
\* invoked, and the Access-Control-* headers of the response are those the
\* inner service set.
C9_NoOrigin ==
    (InFlightPostServed /\ ~Has(req.headers, ORIGIN)) =>
        /\ engineCalls = 1
        /\ engineReq # NoRequest
        /\ result.ok = engineRes.ok
        /\ result.ok =>
              \A k \in AccessControlNames :
                  /\ Has(result.headers, k) <=> Has(engineRes.headers, k)
                  /\ Has(result.headers, k) => result.headers[k] = engineRes.headers[k]

\* C9's case: the allow-list is empty and the inner service, which set no
\* Access-Control-* header, answered.
C9_Witness ==
    /\ InFlightPostServed
    /\ ~Has(req.headers, ORIGIN)
    /\ allowed_origins = Only({})
    /\ result.ok
    /\ result.status = 200
    /\ DOMAIN result.headers \cap AccessControlNames = {}

\* call has answered a request the classifier takes for a preflight: OPTIONS,
\* no gRPC-Web Content-Type, with Origin and with a readable
\* Access-Control-Request-Headers containing x-grpc-web.
PreFlightServed ==
    /\ req # NoRequest
    /\ req.method = "OPTIONS"
    /\ ~(Has(req.headers, CONTENT_TYPE) /\ req.headers[CONTENT_TYPE] \in GrpcWebTypes)
    /\ Has(req.headers, ORIGIN)
    /\ Has(req.headers, REQUEST_HEADERS)
    /\ \A i \in 1..Len(req.headers[REQUEST_HEADERS]) :
            req.headers[REQUEST_HEADERS][i] # NonAsciiChar
    /\ Contains(req.headers[REQUEST_HEADERS], XGrpcWeb)

\* C10: a preflight request whose origin is allowed and whose
\* Access-Control-Request-Method is POST or OPTIONS is answered 204 with the
\* simple-style headers, Allow-Methods: POST,OPTIONS, Allow-Headers equal to
\* the requested value, and Max-Age in seconds if and only if a max-age is
\* configured; the inner service is not invoked.
C10_Preflight ==
    (/\ PreFlightServed
     /\ OriginAllowed
     /\ Has(req.headers, REQUEST_METHOD)
     /\ req.headers[REQUEST_METHOD] \in {"POST", "OPTIONS"}) =>
        /\ result.ok
        /\ result.status = 204
        /\ result.body = EmptyBody
        /\ engineCalls = 0
        /\ engineReq = NoRequest
        /\ DOMAIN result.headers =
              {ALLOW_ORIGIN, EXPOSE_HEADERS, ALLOW_METHODS, ALLOW_HEADERS}
              \cup (IF allow_credentials THEN {ALLOW_CREDENTIALS} ELSE {})
              \cup (IF max_age.some THEN {MAX_AGE} ELSE {})
        /\ result.headers[ALLOW_ORIGIN] = req.headers[ORIGIN]
        /\ result.headers[EXPOSE_HEADERS] \in ExposedJoined
        /\ allow_credentials => result.headers[ALLOW_CREDENTIALS] = "true"
        /\ result.headers[ALLOW_METHODS] = "POST,OPTIONS"
        /\ result.headers[ALLOW_HEADERS] = req.headers[REQUEST_HEADERS]
        /\ max_age = SomeDuration(86400, 0) => result.headers[MAX_AGE] = "86400"
        /\ max_age = SomeDuration(1, 500000000) => result.headers[MAX_AGE] = "1"

\* C10's case: a preflight asking for OPTIONS was answered with a max-age
\* configured.
C10_Witness ==
    /\ PreFlightServed
    /\ OriginAllowed
    /\ Has(req.headers, REQUEST_METHOD)
    /\ req.headers[REQUEST_METHOD] = "OPTIONS"
    /\ max_age = SomeDuration(1, 500000000)
    /\ allowed_origins = Only({"http://foo.com"})
    /\ result.status = 204

\* The served preflight asks for no method, or for one that is neither POST
\* nor OPTIONS.
RequestMethodRefused ==
    ~(Has(req.headers, REQUEST_METHOD) /\ req.headers[REQUEST_METHOD] \in {"POST", "OPTIONS"})

\* What Cors::preflight made of the served preflight.
PreflightCheck ==
    preflight(CfgNow, req.headers, req.headers[ORIGIN], req.headers[REQUEST_HEADERS])

\* The answer of a rejected request: 403, no header, an empty body, and the
\* inner service was not invoked.
Rejected403 ==
    /\ result.ok
    /\ result.status = 403
    /\ result.headers = EmptyHeaders
    /\ result.body = EmptyBody
    /\ engineCalls = 0
    /\ engineReq = NoRequest

\* C11: a preflight for a disallowed origin is answered 403 and never reaches
\* the inner service; so is a preflight for an allowed origin whose
\* Access-Control-Request-Method is absent or neither POST nor OPTIONS, with
\* an empty body and no CORS header; a preflight failing both checks is
\* rejected as OriginNotAllowed.
C11_PreflightRejected ==
    PreFlightServed =>
        /\ ~OriginAllowed =>
              (Rejected403 /\ PreflightCheck = CorsErr("OriginNotAllowed"))
        /\ (OriginAllowed /\ RequestMethodRefused) =>
              (Rejected403 /\ PreflightCheck = CorsErr("MethodNotAllowed"))

\* C11's case: a preflight from http://bar.com asking for GET was answered
\* when only http://foo.com is allowed.
C11_Witness ==
    /\ PreFlightServed
    /\ allowed_origins = Only({"http://foo.com"})
    /\ req.headers[ORIGIN] = "http://bar.com"
    /\ Has(req.headers, REQUEST_METHOD)
    /\ req.headers[REQUEST_METHOD] = "GET"
    /\ result.status = 403

\* call has answered a request that is neither in-flight nor a preflight.
OtherServed ==
    /\ req # NoRequest
    /\ ~(Has(req.headers, CONTENT_TYPE) /\ req.headers[CONTENT_TYPE] \in GrpcWebTypes)
    /\ ~PreFlightServed

\* C12: a request classified Other is, over HTTP/2, handed to the inner
\* service as it came and answered with the inner service's result as it is;
\* over any other version it is answered 400 with an empty body and the inner
\* service is not invoked.
C12_Other ==
    OtherServed =>
        IF req.version = "HTTP/2.0"
        THEN /\ engineCalls = 1
             /\ engineReq = req
             /\ result = engineRes
        ELSE /\ result.ok
             /\ result.status = 400
             /\ result.headers = EmptyHeaders
             /\ result.body = EmptyBody
             /\ engineCalls = 0
             /\ engineReq = NoRequest

\* C12's case: a native gRPC POST over HTTP/2 was answered by the inner
\* service.
C12_Witness ==
    /\ OtherServed
    /\ req.version = "HTTP/2.0"
    /\ req.method = "POST"
    /\ Has(req.headers, CONTENT_TYPE)
    /\ req.headers[CONTENT_TYPE] = "application/grpc"
    /\ req.body # EmptyBody
    /\ result.ok
    /\ result.status = 200

\* The served request went to the inner service as it came, and the inner
\* service's result is the answer as it is.
PassedThrough ==
    /\ engineCalls = 1
    /\ engineReq = req
    /\ result = engineRes

\* C13 as stated: an HTTP/2 request of any content type passes through
\* untouched to the inner service.
C13_Original ==
    (req # NoRequest /\ req.version = "HTTP/2.0") => PassedThrough

\* C13 as amended: an HTTP/2 request passes through untouched exactly when it
\* is classified Other: whatever its content type, except the four gRPC-Web
\* media types, and unless it is a preflight.
C13_Http2PassThrough ==
    (req # NoRequest /\ req.version = "HTTP/2.0") => (PassedThrough <=> OtherServed)

\* C13's case: an HTTP/2 POST that is not gRPC at all was passed through.
C13_Witness ==
    /\ req # NoRequest
    /\ req.version = "HTTP/2.0"
    /\ Has(req.headers, CONTENT_TYPE)
    /\ req.headers[CONTENT_TYPE] = "text/plain"
    /\ PassedThrough

\* C14: a request with a gRPC-Web Content-Type and a method other than POST is
\* answered 405 with an empty body and no CORS header, whatever its Origin,
\* and the inner service is not invoked; so is an OPTIONS request that has
\* the headers of a preflight.
C14_MethodNotAllowed ==
    (/\ req # NoRequest
     /\ Has(req.headers, CONTENT_TYPE)
     /\ req.headers[CONTENT_TYPE] \in GrpcWebTypes
     /\ req.method # "POST") =>
        /\ result.ok
        /\ result.status = 405
        /\ result.headers = EmptyHeaders
        /\ result.body = EmptyBody
        /\ engineCalls = 0
        /\ engineReq = NoRequest

\* C14's case: an OPTIONS request with a gRPC-Web Content-Type and the
\* headers of a preflight, from an origin that is not allowed, was answered
\* 405.
C14_Witness ==
    /\ req # NoRequest
    /\ req.method = "OPTIONS"
    /\ Has(req.headers, CONTENT_TYPE)
    /\ req.headers[CONTENT_TYPE] = GRPC_WEB
    /\ Has(req.headers, ORIGIN)
    /\ ~OriginAllowed
    /\ Has(req.headers, REQUEST_HEADERS)
    /\ Contains(req.headers[REQUEST_HEADERS], XGrpcWeb)
    /\ Has(req.headers, REQUEST_METHOD)
    /\ req.headers[REQUEST_METHOD] = "POST"
    /\ result.status = 405

TextTypes == {GRPC_WEB_TEXT, GRPC_WEB_TEXT_PROTO}

\* The value of header name of the served request is one of the -text media
\* types.
IsTextVariant(name) == Has(req.headers, name) /\ req.headers[name] \in TextTypes

\* The classification of the served request by the three rules in their
\* order; readable says whether the second rule asks for an
\* Access-Control-Request-Headers value that is visible ASCII.
Classified(readable) ==
    IF Has(req.headers, CONTENT_TYPE) /\ req.headers[CONTENT_TYPE] \in GrpcWebTypes
    THEN InFlight(req.method,
                  IF IsTextVariant(CONTENT_TYPE) THEN "Base64" ELSE "None",
                  IF IsTextVariant(ACCEPT) THEN "Base64" ELSE "None")
    ELSE IF /\ req.method = "OPTIONS"
            /\ Has(req.headers, ORIGIN)
            /\ Has(req.headers, REQUEST_HEADERS)
            /\ Contains(req.headers[REQUEST_HEADERS], XGrpcWeb)
            /\ readable => \A i \in 1..Len(req.headers[REQUEST_HEADERS]) :
                                req.headers[REQUEST_HEADERS][i] # NonAsciiChar
    THEN PreFlight(req.headers[ORIGIN], req.headers[REQUEST_HEADERS])
    ELSE Other(req.version)

\* C15 as stated: the served request is classified by the three rules, the
\* second asking only that Access-Control-Request-Headers contains
\* x-grpc-web.
C15_Original ==
    req # NoRequest =>
        RequestKindNew(req.headers, req.method, req.version) = Classified(FALSE)

\* C15 as amended: the served request is classified by the three rules, the
\* second asking that Access-Control-Request-Headers is visible ASCII and
\* contains x-grpc-web; the answer is the one of the request's class.
C15_Classify ==
    req # NoRequest =>
        LET k == Classified(TRUE)
        IN  /\ RequestKindNew(req.headers, req.method, req.version) = k
            /\ k.kind = "InFlight" =>
                  IF k.method = "POST" THEN engineCalls = 1 \/ result.status = 403
                  ELSE result.status = 405
            /\ (k.kind = "InFlight" /\ engineCalls = 1) =>
                  /\ engineReq.body.encoding = k.encoding
                  /\ result.ok => result.body.encoding = k.accept
            /\ k.kind = "PreFlight" => result.status \in {204, 403}
            /\ k.kind = "Other" =>
                  IF k.version = "HTTP/2.0" THEN engineCalls = 1 ELSE result.status = 400

\* C15's case: a POST with a -text Content-Type and an Accept that is no
\* gRPC-Web media type was served: decoded as base64, answered in binary.
C15_Witness ==
    /\ req # NoRequest
    /\ req.method = "POST"
    /\ Has(req.headers, CONTENT_TYPE)
    /\ req.headers[CONTENT_TYPE] = GRPC_WEB_TEXT
    /\ Has(req.headers, ACCEPT)
    /\ req.headers[ACCEPT] = "*/*"
    /\ engineCalls = 1
    /\ engineReq.body.encoding = "Base64"
    /\ result.ok
    /\ result.body.encoding = "None"

\* The inner service answered the served in-flight POST with a response.
InFlightPostAnswered ==
    /\ InFlightPostServed
    /\ engineCalls = 1
    /\ engineRes.ok

\* C16: the response of a successful in-flight POST is encoded as the Accept
\* header says, whatever the request's Content-Type: its body is the inner
\* service's body under the codec with the accept encoding, its Content-Type
\* is application/grpc-web-text+proto for Base64 and
\* application/grpc-web+proto otherwise, whatever the inner service set, and
\* its status is the inner service's.
C16_ResponseEncoding ==
    InFlightPostAnswered =>
        LET accept == IF IsTextVariant(ACCEPT) THEN "Base64" ELSE "None"
        IN  /\ result.ok
            /\ result.status = engineRes.status
            /\ result.body.kind = "WebCall"
            /\ result.body.direction = "Response"
            /\ result.body.inner = engineRes.body
            /\ result.body.encoding = accept
            /\ Has(result.headers, CONTENT_TYPE)
            /\ result.headers[CONTENT_TYPE] =
                  (IF accept = "Base64" THEN "application/grpc-web-text+proto"
                   ELSE "application/grpc-web+proto")
            /\ \A k \in DOMAIN engineRes.headers \ (AccessControlNames \cup {CONTENT_TYPE}) :
                  Has(result.headers, k) /\ result.headers[k] = engineRes.headers[k]

\* C16's case: a binary request that accepts text was answered as text, the
\* inner service having set a Content-Type of its own.
C16_Witness ==
    /\ InFlightPostAnswered
    /\ req.headers[CONTENT_TYPE] = GRPC_WEB
    /\ IsTextVariant(ACCEPT)
    /\ Has(engineRes.headers, CONTENT_TYPE)
    /\ engineRes.headers[CONTENT_TYPE] = "application/grpc"
    /\ result.body.encoding = "Base64"

\* The headers coerce_request sets or strips.
CoercedNames == {CONTENT_LENGTH, CONTENT_TYPE, TE, ACCEPT_ENCODING}

\* C17: the request handed to the inner service for an in-flight POST has no
\* Content-Length, Content-Type application/grpc, TE trailers and
\* Accept-Encoding identity,deflate,gzip, whatever the client sent; its body
\* is the client's body under the codec with the encoding of the request's
\* Content-Type; every other header, the method and the URI are the client's.
C17_CoercedRequest ==
    (InFlightPostServed /\ engineCalls = 1) =>
        /\ ~Has(engineReq.headers, CONTENT_LENGTH)
        /\ Has(engineReq.headers, CONTENT_TYPE)
        /\ engineReq.headers[CONTENT_TYPE] = "application/grpc"
        /\ Has(engineReq.headers, TE)
        /\ engineReq.headers[TE] = "trailers"
        /\ Has(engineReq.headers, ACCEPT_ENCODING)
        /\ engineReq.headers[ACCEPT_ENCODING] = "identity,deflate,gzip"
        /\ engineReq.body =
              [kind |-> "WebCall", inner |-> req.body, direction |-> "Request",
               encoding |-> IF IsTextVariant(CONTENT_TYPE) THEN "Base64" ELSE "None",
               buf |-> <<>>, poll_trailers |-> TRUE]
        /\ DOMAIN engineReq.headers \ CoercedNames = DOMAIN req.headers \ CoercedNames
        /\ \A k \in DOMAIN req.headers \ CoercedNames : engineReq.headers[k] = req.headers[k]
        /\ engineReq.method = req.method
        /\ engineReq.uri = req.uri
        /\ engineReq.version = req.version

\* C17's case: the client sent Content-Length, TE and Accept-Encoding of its
\* own with a -text request.
C17_Witness ==
    /\ InFlightPostServed
    /\ engineCalls = 1
    /\ IsTextVariant(CONTENT_TYPE)
    /\ Has(req.headers, CONTENT_LENGTH)
    /\ Has(req.headers, TE)
    /\ req.headers[TE] = "gzip"
    /\ Has(req.headers, ACCEPT_ENCODING)
    /\ Has(req.headers, "x-user-agent")
    /\ Has(req.headers, ORIGIN)
    /\ req.uri = "/example.Example/ServerStream"

-----------------------------------------------------------------------------
(* Further claims about the request direction, checked under SpecDecode.    *)

\* The bytes a pull has to work on: the buffer, then the data of the items it
\* takes from the inner body.
PullInput ==
    LET n == Len(innerData) - Len(innerData')
    IN  buf \o Concat([i \in 1..n |-> innerData[i].data])

\* The number of bytes a pull takes off the front of its input.
PullDecoded == Len(PullInput) - Len(buf')

\* C18: a pull of a Base64 request body decodes at most once, and then the
\* largest multiple-of-4 prefix of what is buffered, which is at least 4
\* bytes; what it leaves in the buffer is the rest, at most 3 bytes, whether
\* it returns data, an error, the end of the stream or pending.
C18_DecodeAligned ==
    [][(direction = "Request" /\ encoding = "Base64") =>
          /\ Len(buf) <= 3
          /\ Len(buf') <= 3
          /\ PullDecoded >= 0
          /\ PullDecoded % 4 = 0
          /\ PullDecoded = (Len(PullInput) \div 4) * 4
          /\ buf' = SubSeq(PullInput, PullDecoded + 1, Len(PullInput))
          /\ IF PullDecoded > 0
             THEN LET d == Base64Decode(SubSeq(PullInput, 1, PullDecoded))
                  IN  lastPoll' = IF d.ok THEN ReadySome(DataItem(d.val))
                                  ELSE ReadySome(internal_error("decode"))
             ELSE \/ lastPoll' \in {Pending, ReadyNone, ReadySome(Malformed)}
                  \/ lastPoll' = ReadySome(internal_error("read"))
      ]_vars

\* C18's case: a pull found 7 bytes to work on, decoded 4 and kept 3.
C18_Witness ==
    /\ direction = "Request"
    /\ encoding = "Base64"
    /\ Len(SrcAll) >= 1
    /\ Len(SrcAll[1].data) = 7
    /\ Len(emitted) = 1
    /\ emitted[1].kind = "data"
    /\ Len(buf) = 3

-----------------------------------------------------------------------------
(* Both directions of the codec under one specification.                    *)

InitCodec == InitDecode \/ InitEncode
NextCodec == PollData
SpecCodec == InitCodec /\ [][NextCodec]_vars

\* A pull during which the inner body never reports pending, on a codec with
\* buffer b, flag flag and the inner items left.
ReadyPull(b, flag, items) ==
    IF direction = "Request"
    THEN LET r == poll_decode(encoding, b, items, Len(items) + 1)
         IN  [poll |-> r.poll, buf |-> r.buf, flag |-> flag, items |-> r.items]
    ELSE LET r == poll_encode(encoding, flag, items, innerTrailers, TRUE, TRUE)
         IN  [poll |-> r.poll, buf |-> b, flag |-> r.flag, items |-> r.items]

\* The first n items, at most, that pulls emit when the inner body never
\* reports pending.
RECURSIVE ReadyRun(_, _, _, _)
ReadyRun(b, flag, items, n) ==
    IF n = 0 THEN <<>>
    ELSE LET r == ReadyPull(b, flag, items)
         IN  IF r.poll.tag = "Some"
             THEN <<r.poll.item>> \o ReadyRun(r.buf, r.flag, r.items, n - 1)
             ELSE <<>>

\* A pull reports pending only if the inner body does, and the items emitted
\* are those emitted when the inner body never reports pending.
PendingOnlyFromInner ==
    direction \in {"Request", "Response"} =>
        /\ ReadyPull(buf, poll_trailers, innerData).poll # Pending
        /\ emitted = ReadyRun(<<>>, TRUE, SrcAll, Len(emitted))

\* A pull that reports pending emits nothing and leaves the trailers flag.
PendingPullKeepsFlag ==
    lastPoll' = Pending => (poll_trailers' = poll_trailers /\ emitted' = emitted)

\* C19 as stated: a pull reports pending only when the inner body does, the
\* buffer and the trailers flag are unchanged across a pending pull, and the
\* items emitted are the same for every interleaving of pending results.
C19_Original ==
    /\ []PendingOnlyFromInner
    /\ [][PendingPullKeepsFlag /\ (lastPoll' = Pending => buf' = buf)]_vars

\* C19 as amended: a pull reports pending only when the inner body does, and
\* the items emitted are the same for every interleaving of pending results;
\* across a pending pull the trailers flag is unchanged and the buffer keeps
\* its bytes, followed by the data of the items the pull took from the inner
\* body before the inner body reported pending, fewer than 4 bytes in all.
C19_Suspension ==
    /\ []PendingOnlyFromInner
    /\ [][/\ PendingPullKeepsFlag
          /\ lastPoll' = Pending =>
                IF direction = "Request" /\ encoding = "Base64"
                THEN /\ buf' = PullInput
                     /\ Len(buf') < 4
                     /\ \A i \in 1..(Len(innerData) - Len(innerData')) : innerData[i].ok
                ELSE buf' = buf /\ innerData' = innerData
         ]_vars

\* C19's case: a pull took a 2-byte chunk into the buffer before the inner body
\* reported pending, and the next pull emitted data.
C19_Witness ==
    /\ direction = "Request"
    /\ encoding = "Base64"
    /\ Len(SrcAll) >= 2
    /\ Len(SrcAll[1].data) = 2
    /\ Len(innerData) = Len(SrcAll) - 1
    /\ buf = SrcAll[1].data
    /\ lastPoll = Pending

-----------------------------------------------------------------------------
(* Further claims about the response direction, checked under SpecEncode.   *)

\* The number of items the codec has taken from the inner body.
Taken == Len(SrcAll) - Len(innerData)

\* C20: the i-th data chunk of the inner body is emitted as the i-th item and
\* as one item: the chunk itself when the encoding is None, the base64 text of
\* that chunk alone when it is Base64; the trailers frame of a Base64
\* response is the base64 text of the whole frame.
C20_ChunkLocal ==
    direction = "Response" =>
        /\ Len(emitted) >= Taken
        /\ \A i \in 1..Taken :
              IF SrcAll[i].ok
              THEN /\ emitted[i].kind = "data"
                   /\ IF encoding = "Base64"
                      THEN /\ emitted[i].data = Base64Encode(SrcAll[i].data)
                           /\ Base64Decode(emitted[i].data) = DecOk(SrcAll[i].data)
                      ELSE emitted[i].data = SrcAll[i].data
              ELSE emitted[i].kind = "error"
        /\ \A i \in (Taken + 1)..Len(emitted) : emitted[i].kind # "data"
        /\ \A i \in FramePlaces :
              LET frame == make_trailers_frame(innerTrailers.map)
              IN  IF encoding = "Base64"
                  THEN /\ emitted[i].data = Base64Encode(frame)
                       /\ Base64Decode(emitted[i].data) = DecOk(frame)
                  ELSE emitted[i].data = frame

\* C20's case: chunks of 1 and 2 bytes and the trailers frame were emitted as
\* three base64 texts.
C20_Witness ==
    /\ direction = "Response"
    /\ encoding = "Base64"
    /\ Len(SrcAll) = 2
    /\ Len(SrcAll[1].data) = 1
    /\ Len(SrcAll[2].data) = 2
    /\ Len(emitted) = 3
    /\ Len(emitted[1].data) = 4
    /\ Len(emitted[2].data) = 4
    /\ FramePlaces = {3}

\* C21: over any sequence of pulls on a response-direction codec the inner
\* body's trailing metadata is polled to completion at most once, also when
\* that poll reported absent metadata or an error and the consumer pulls
\* again.
C21_TrailersOnce ==
    direction = "Response" => trailerPolls <= 1

\* C21's case: the trailing metadata was absent, the consumer pulled again and
\* the metadata was polled a second time.
C21_Witness ==
    /\ direction = "Response"
    /\ innerTrailers = NoTrailers
    /\ poll_trailers
    /\ trailerPolls = 2
    /\ lastPoll = ReadyNone

-----------------------------------------------------------------------------
(* Claims about failures in either direction, checked under SpecCodec.      *)

\* The pull took a read error from the inner body.
ReadFailure ==
    \E i \in 1..(Len(innerData) - Len(innerData')) : ~innerData[i].ok

\* The pull decoded a prefix that is no base64 text.
DecodeFailure ==
    /\ direction = "Request"
    /\ encoding = "Base64"
    /\ PullDecoded > 0
    /\ ~Base64Decode(SubSeq(PullInput, 1, PullDecoded)).ok

\* The pull found the end of the inner body with bytes left in the buffer.
MisalignedEnd ==
    /\ direction = "Request"
    /\ encoding = "Base64"
    /\ innerData' = <<>>
    /\ lastPoll'.tag # "Pending"
    /\ PullDecoded = 0
    /\ ~ReadFailure
    /\ Len(buf') > 0

\* The pull polled the trailing metadata to completion and got an error.
TrailersFailure ==
    /\ direction = "Response"
    /\ trailerPolls' = trailerPolls + 1
    /\ innerTrailers.tag = "Err"

PullFailure == ReadFailure \/ DecodeFailure \/ MisalignedEnd \/ TrailersFailure

\* C22: a pull during which a failure occurs (a read error of the inner body,
\* invalid base64 in the prefix decoded, a mis-aligned end, an error of the
\* trailing metadata) emits exactly one error item, of status Internal; a pull
\* without a failure emits no error item; no item of another error status is
\* ever emitted.
C22_InternalErrors ==
    [][/\ PullFailure <=> (lastPoll'.tag = "Some" /\ lastPoll'.item.kind = "error")
       /\ PullFailure =>
            /\ emitted' = Append(emitted, lastPoll'.item)
            /\ lastPoll'.item.status = "Internal"
            /\ lastPoll'.item.data = <<>>
       /\ \A i \in 1..Len(emitted') :
            emitted'[i].status = IF emitted'[i].kind = "error" THEN "Internal" ELSE "Ok"
      ]_vars

\* C22's case: base64 text with an invalid character was decoded, after a
\* chunk that decoded well.
C22_Witness ==
    /\ direction = "Request"
    /\ encoding = "Base64"
    /\ Len(emitted) = 2
    /\ emitted[1].kind = "data"
    /\ emitted[2] = internal_error("decode")
    /\ lastPoll = ReadySome(emitted[2])

\* C23: once the codec has emitted an error item, no later pull emits a data
\* chunk or a trailers frame.
C23_ErrorsTerminal ==
    \A i \in 1..Len(emitted) : \A j \in (i + 1)..Len(emitted) :
        emitted[i].kind = "error" => emitted[j].kind \notin {"data", "trailers"}

\* C23's case: of a base64 request body that the inner body delivered without
\* a read error, a chunk failed to decode and the next pull emitted data.
C23_Witness ==
    /\ direction = "Request"
    /\ encoding = "Base64"
    /\ \A i \in 1..Len(SrcAll) : SrcAll[i].ok
    /\ Len(emitted) = 2
    /\ emitted[1] = internal_error("decode")
    /\ emitted[2].kind = "data"
    /\ Len(emitted[2].data) > 0

-----------------------------------------------------------------------------
(* The claim about the Config builder, checked under Spec.                  *)

\* The default Config.
ConfigDefaults ==
    /\ allowed_origins = [any |-> TRUE, only |-> {}]
    /\ exposed_headers = {"grpc-status", "grpc-message"}
    /\ max_age = [some |-> TRUE, secs |-> 24 * 3600, nanos |-> 0]
    /\ allow_credentials = TRUE

\* What every Config built holds, and what a Config without max-age does to
\* the answer of a preflight.
ConfigKeeps ==
    /\ {"grpc-status", "grpc-message"} \subseteq exposed_headers
    /\ exposedIter \in Perms(exposed_headers)
    /\ (PreFlightServed /\ result.status = 204) =>
            (Has(result.headers, MAX_AGE) <=> max_age.some)

\* What the builder calls and the requests do to the Config.
ConfigSteps ==
    /\ \A o \in OriginSets : allow_origins(o) =>
            /\ allowed_origins' = [any |-> FALSE, only |-> o]
            /\ UNCHANGED <<exposed_headers, max_age, allow_credentials>>
    /\ \A h \in ExtraExposed : expose_headers(h) =>
            /\ exposed_headers' = exposed_headers \cup h
            /\ UNCHANGED <<allowed_origins, max_age, allow_credentials>>
    /\ \A m \in MaxAges : set_max_age(m) =>
            /\ max_age' = m
            /\ UNCHANGED <<allowed_origins, exposed_headers, exposedIter, allow_credentials>>
    /\ \A b \in BOOLEAN : set_allow_credentials(b) =>
            /\ allow_credentials' = b
            /\ UNCHANGED <<allowed_origins, exposed_headers, exposedIter, max_age>>
    /\ exposed_headers \subseteq exposed_headers'
    /\ phase = "serve" =>
            UNCHANGED <<allowed_origins, exposed_headers, exposedIter, max_age,
                        allow_credentials, phase>>

\* C24: the default Config allows any origin, exposes grpc-status and
\* grpc-message, has a max-age of 24 hours and allows credentials; whatever
\* the builder calls, the exposed headers keep grpc-status and grpc-message,
\* allow_origins leaves exactly the origins of the last call, a Config without
\* max-age makes no Max-Age header, each call changes only the field it
\* names, and serving a request changes nothing of the Config.
C24_ConfigBuilder ==
    /\ ConfigDefaults
    /\ []ConfigKeeps
    /\ [][ConfigSteps]_vars

\* C24's case: a Config built with every builder call has answered a
\* preflight.
C24_Witness ==
    /\ phase = "serve"
    /\ allowed_origins = [any |-> FALSE, only |-> {"http://foo.com"}]
    /\ exposed_headers = {"grpc-status", "grpc-message", "x-custom"}
    /\ ~max_age.some
    /\ ~allow_credentials
    /\ PreFlightServed
    /\ result.status = 204
    /\ ~Has(result.headers, MAX_AGE)

-----------------------------------------------------------------------------
(* The claim about is_end_stream, checked under SpecCodec.                  *)

\* C25: when the codec reports is_end_stream, the next pull yields the end of
\* the stream (or is pending): no data chunk, no trailers frame and no error
\* is left to deliver.
C25_EndStream ==
    [][(direction \in {"Request", "Response"} /\ is_end_stream) =>
            lastPoll' \in {ReadyNone, Pending}]_vars

\* C25's case: a Base64 request codec has emitted data, holds 2 residual bytes
\* and reports is_end_stream before the malformed-base64 error was delivered.
C25_Witness ==
    /\ direction = "Request"
    /\ encoding = "Base64"
    /\ is_end_stream
    /\ Len(buf) = 2
    /\ Len(emitted) = 1
    /\ emitted[1].kind = "data"

-----------------------------------------------------------------------------
(* The claim about errors of the inner service, checked under Spec.         *)

\* C26: an in-flight POST that passes the CORS check reaches the inner service
\* once; when the inner service returns an error, that error is the result:
\* no response, so no Content-Type, no CORS header and no body under the
\* codec; on every path the inner service is invoked at most once.
C26_EngineError ==
    /\ engineCalls \in {0, 1}
    /\ (InFlightPostServed /\ (~Has(req.headers, ORIGIN) \/ OriginAllowed)) =>
            /\ engineCalls = 1
            /\ ~engineRes.ok =>
                  /\ result = engineRes
                  /\ ~result.ok
                  /\ result.headers = EmptyHeaders
                  /\ result.body.kind # "WebCall"

\* C26's case: the inner service failed on the POST of an allowed origin that
\* accepts text.
C26_Witness ==
    /\ InFlightPostServed
    /\ Has(req.headers, ORIGIN)
    /\ OriginAllowed
    /\ allow_credentials
    /\ IsTextVariant(ACCEPT)
    /\ engineCalls = 1
    /\ ~engineRes.ok
    /\ ~result.ok

-----------------------------------------------------------------------------
(* Progress of the request direction: the consumer keeps pulling and the    *)
(* inner body does not report pending forever.                              *)

SpecDecodeFair == InitDecode /\ [][NextDecode]_vars /\ WF_vars(NextDecode)

\* The base64 text received is, piece by piece, the text of the data items
\* emitted, followed by the bytes in buffer b.
RECURSIVE Accounted(_, _, _)
Accounted(received, items, b) ==
    IF items = <<>> THEN received = b
    ELSE LET n == 4 * ((Len(Head(items).data) + 2) \div 3)
         IN  /\ Len(received) >= n
             /\ Base64Decode(SubSeq(received, 1, n)) = DecOk(Head(items).data)
             /\ Accounted(SubSeq(received, n + 1, Len(received)), Tail(items), b)

\* The pulls have come to the end of the stream or to an error.
DecodeSettled ==
    \/ lastPoll = ReadyNone
    \/ lastPoll.tag = "Some" /\ lastPoll.item.kind = "error"

\* Until an error is emitted, every byte taken from the inner body is in a
\* data item emitted, decoded, or in the buffer.
BytesAccounted ==
    (/\ direction = "Request"
     /\ encoding = "Base64"
     /\ \A i \in 1..Len(emitted) : emitted[i].kind = "data") =>
        Accounted(Concat([i \in 1..(Len(SrcAll) - Len(innerData)) |-> SrcAll[i].data]),
                  emitted, buf)

\* C27: repeated pulls of a Base64 request body whose inner body delivers
\* finitely many chunks and ends eventually yield the end of the stream or an
\* error, and until then every byte received has been emitted decoded or is
\* in the buffer.
C27_DecodeProgress ==
    /\ []BytesAccounted
    /\ (direction = "Request" /\ encoding = "Base64") => <>DecodeSettled

\* C27's case: a text of 8 characters came in 3 chunks, was emitted as two
\* data items, and the stream ended.
C27_Witness ==
    /\ direction = "Request"
    /\ encoding = "Base64"
    /\ Len(SrcAll) = 3
    /\ Len(SrcText) = 8
    /\ Len(emitted) = 2
    /\ emitted[1].kind = "data"
    /\ emitted[2].kind = "data"
    /\ buf = <<>>
    /\ lastPoll = ReadyNone

=============================================================================
